---- MODULE Spec2Model ----
(***************************************************************************)
(* Model of the Jenkins metrics exporter (jenkins-metrics.go, config.go).  *)
(*                                                                         *)
(* The program is one polling goroutine (main, lines 275-280) that calls   *)
(* updateMetrics and sleeps, next to the HTTP handler of /metrics.  The    *)
(* poller is modelled call by call: every action is one call of the        *)
(* Jenkins API together with the code that follows it up to the next call. *)
(* The answers of the server are inputs of the actions.  The gojenkins     *)
(* and toml libraries are not part of the repository.  Where the code      *)
(* depends on them: a gojenkins call that returns an error returns a nil   *)
(* pointer with it; a negative integer decoded into a uint64 field is an   *)
(* error in some versions of the toml library and wraps modulo 2^64 in     *)
(* others, and the model allows both.                                      *)
(***************************************************************************)
EXTENDS Integers, Sequences, FiniteSets, TLC

VARIABLES
    pc,        \* position of the process: startup, the poller's next call, or its end
    file,      \* the configuration file given with -config
    config,    \* the global config (jenkins-metrics.go:20)
    metrics,   \* the nine registered gauge vectors (jenkins-metrics.go:23-66)
    logged,    \* the error logged by the current cycle, "" when none
    idx,       \* index of the job the loop of line 143 is at
    local,     \* job, lastCompletedBuild, lastBuild, resultset, isRunning, livePipe of the iteration
    slept,     \* the durations handed to time.Sleep so far (line 278): none, or the last one
    failed,    \* the API call that returned an error in the current cycle, "" when none
    setBy,     \* history: per gauge vector, the labels set in this cycle and by which iteration
    reported,  \* history: what job.IsRunning() reported in each iteration of this cycle
    start,     \* history: what was published when the current cycle began
    scraped    \* history: what the last scrape served since the current cycle began returned

vars == <<pc, file, config, metrics, logged, idx, local, slept, failed, setBy, reported,
          start, scraped>>

(***************************************************************************)
(* Bounds of the model.                                                    *)
(***************************************************************************)
MaxJobs == 2
MaxBuild == 2
MaxStages == 2

JobNames == {"a", "b"}

(***************************************************************************)
(* 64-bit integers, as eight little-endian limbs of eight bits: the poll   *)
(* interval is a uint64 and time.Duration an int64, and the product of     *)
(* line 278 wraps.                                                         *)
(***************************************************************************)
Limbs == 8
LimbBase == 256

U64(n) == [i \in 1..Limbs |->
             CASE i = 1 -> n % LimbBase
               [] i = 2 -> (n \div LimbBase) % LimbBase
               [] i = 3 -> (n \div (LimbBase * LimbBase)) % LimbBase
               [] i = 4 -> (n \div (LimbBase * LimbBase * LimbBase)) % LimbBase
               [] OTHER -> 0]

RECURSIVE ColumnSum(_, _, _, _)
ColumnSum(a, b, k, i) ==
    IF i > k THEN 0 ELSE a[i] * b[k + 1 - i] + ColumnSum(a, b, k, i + 1)

RECURSIVE MulFrom(_, _, _, _)
MulFrom(a, b, k, carry) ==
    IF k > Limbs THEN <<>>
    ELSE LET s == ColumnSum(a, b, k, 1) + carry
         IN  <<s % LimbBase>> \o MulFrom(a, b, k + 1, s \div LimbBase)

\* a * b modulo 2^64
Mul64(a, b) == MulFrom(a, b, 1, 0)

IsZero64(a) == \A i \in 1..Limbs : a[i] = 0

\* -a modulo 2^64
Neg64(a) == Mul64(a, [i \in 1..Limbs |-> LimbBase - 1])

\* the sign of the int64 with these bits
IsNegative64(a) == a[Limbs] >= LimbBase \div 2

\* time.Second, in nanoseconds
Second == U64(1000000000)

DefaultUpdateInterval == 1800

(***************************************************************************)
(* Conversions to label values.                                            *)
(***************************************************************************)
Digits == <<"0", "1", "2", "3", "4", "5", "6", "7", "8", "9">>

RECURSIVE Itoa(_)
Itoa(n) == IF n < 10 THEN Digits[n + 1]
           ELSE Itoa(n \div 10) \o Digits[(n % 10) + 1]

\* fmt.Sprintf("%03s", id): the id, left-padded with zeros to three characters
RECURSIVE Sprintf03s(_)
Sprintf03s(id) == IF Len(id) < 3 THEN Sprintf03s("0" \o id) ELSE id

(***************************************************************************)
(* The gauge vectors.  A vector is the set of its series, a series a pair  *)
(* <<label values, value>>; at most one series per tuple of label values.  *)
(***************************************************************************)
Vectors == {"jenkinsRunningBuild", "jenkinsRunningBuildElapsedTime",
            "jenkinsRunningBuildPipelineStatus", "jenkinsCompletedBuildSuccess",
            "jenkinsCompletedBuildDurationSeconds", "jenkinsCompletedBuildTimestamp",
            "jenkinsCompletedBuildTestCount", "jenkinsCompletedBuildTestCaseFailureAge",
            "jenkinsCompletedBuildPipelineDurationSeconds"}

NoSeries == [v \in Vectors |-> {}]

\* vec.Reset()
Reset(m, vec) == [m EXCEPT ![vec] = {}]

\* vec.WithLabelValues(labels...).Set(value)
WithLabelValuesSet(m, vec, labels, value) ==
    [m EXCEPT ![vec] = {s \in @ : s[1] # labels} \cup {<<labels, value>>}]

Labels(m, vec) == {s[1] : s \in m[vec]}

\* the block without its last line
ResetAllButTimestamp(m) ==
    LET m1 == Reset(m, "jenkinsRunningBuild")
        m2 == Reset(m1, "jenkinsRunningBuildElapsedTime")
        m3 == Reset(m2, "jenkinsRunningBuildPipelineStatus")
        m4 == Reset(m3, "jenkinsCompletedBuildSuccess")
        m5 == Reset(m4, "jenkinsCompletedBuildDurationSeconds")
        m6 == Reset(m5, "jenkinsCompletedBuildTestCount")
        m7 == Reset(m6, "jenkinsCompletedBuildPipelineDurationSeconds")
    IN  Reset(m7, "jenkinsCompletedBuildTestCaseFailureAge")

\* the "Reset all metrics" block of updateMetrics
ResetAll(m) ==
    LET m1 == Reset(m, "jenkinsRunningBuild")
        m2 == Reset(m1, "jenkinsRunningBuildElapsedTime")
        m3 == Reset(m2, "jenkinsRunningBuildPipelineStatus")
        m4 == Reset(m3, "jenkinsCompletedBuildSuccess")
        m5 == Reset(m4, "jenkinsCompletedBuildDurationSeconds")
        m6 == Reset(m5, "jenkinsCompletedBuildTestCount")
        m7 == Reset(m6, "jenkinsCompletedBuildPipelineDurationSeconds")
        m8 == Reset(m7, "jenkinsCompletedBuildTestCaseFailureAge")
    IN  Reset(m8, "jenkinsCompletedBuildTimestamp")

(***************************************************************************)
(* The answers of the Jenkins API.                                         *)
(***************************************************************************)
Results == {"FAILURE", "SUCCESS", "UNSTABLE", "ABORTED", ""}
StageStatuses == {"SUCCESS", "IN_PROGRESS", "UNSTABLE", "FAILED", "ABORTED", "NOT_EXECUTED"}
StageIDs == <<"6", "14", "105", "1024">>
StageNames == <<"Checkout", "Build", "Test", "Deploy">>

BuildNumbers == 1..MaxBuild

NoBuild == [number |-> 0, duration |-> 0, timestamp |-> 0, result |-> "", good |-> FALSE]

\* builds: duration and timestamp in milliseconds
Builds(numbers, results, goods) ==
    [number : numbers, duration : {2500}, timestamp : {61999}, result : results, good : goods]

\* the stages of a pipeline run: up to MaxStages stages with distinct ids
StageAt(i, status) ==
    [ID |-> StageIDs[i], Name |-> StageNames[i], Status |-> status, Duration |-> 1000 * i + 500]

PipelineRuns(statuses) ==
    UNION {{[i \in 1..n |-> StageAt(i, f[i])] : f \in [1..n -> statuses]} : n \in 0..MaxStages}

\* A server: what GetLastCompletedBuild, GetLastBuild and GetPipelineRun can return.
\* Rich varies every field the code reads; Plain varies the number of the completed
\* build and the stages of the running build; Bare varies those stages only.
Rich == [CompletedBuilds |-> Builds(BuildNumbers, Results, {FALSE}),
         LastBuilds |-> Builds(BuildNumbers, {""}, BOOLEAN),
         LiveRuns |-> PipelineRuns(StageStatuses),
         CompletedRuns |-> PipelineRuns({"SUCCESS"})]

Plain == [CompletedBuilds |-> Builds(BuildNumbers, {"SUCCESS"}, {FALSE}),
          LastBuilds |-> Builds({MaxBuild}, {""}, {FALSE}),
          LiveRuns |-> PipelineRuns({"IN_PROGRESS"}),
          CompletedRuns |-> {[i \in 1..MaxStages |-> StageAt(i, "SUCCESS")]}]

Bare == [CompletedBuilds |-> Builds({1}, {"SUCCESS"}, {FALSE}),
         LastBuilds |-> Builds({1}, {""}, {FALSE}),
         LiveRuns |-> PipelineRuns({"IN_PROGRESS"}),
         CompletedRuns |-> {[i \in 1..MaxStages |-> StageAt(i, "SUCCESS")]}]

NoResultSet == [FailCount |-> 0, SkipCount |-> 0, PassCount |-> 0, Suites |-> <<>>]

\* what GetResultSet can return: a test report with one suite
ResultSets ==
    {[FailCount |-> 2, SkipCount |-> 1, PassCount |-> 1,
      Suites |-> << [Name |-> "suite",
                     Cases |-> << [Name |-> "c1", Status |-> "PASSED", Skipped |-> FALSE,
                                   FailedSince |-> 0, Age |-> 0],
                                  [Name |-> "c2", Status |-> "FAILED", Skipped |-> FALSE,
                                   FailedSince |-> 1, Age |-> 2],
                                  [Name |-> "c3", Status |-> "SKIPPED", Skipped |-> TRUE,
                                   FailedSince |-> 0, Age |-> 0],
                                  [Name |-> "c4", Status |-> "REGRESSION", Skipped |-> FALSE,
                                   FailedSince |-> 2, Age |-> 1] >>] >>]}

NoLocal == [job |-> "", lastCompletedBuild |-> NoBuild, lastBuild |-> NoBuild,
            resultset |-> NoResultSet, isRunning |-> 0, livePipe |-> <<>>]

(***************************************************************************)
(* The code of updateMetrics between two API calls, as the sequence of the *)
(* Set calls it makes, in the order of the code.                           *)
(***************************************************************************)
Write(vec, labels, value) == [vec |-> vec, labels |-> labels, value |-> value]

RECURSIVE Apply(_, _)
Apply(m, writes) ==
    IF writes = <<>> THEN m
    ELSE Apply(WithLabelValuesSet(m, Head(writes).vec, Head(writes).labels, Head(writes).value),
               Tail(writes))

\* history: the labels of the writes, with the iteration that made them
RECURSIVE Record(_, _, _)
Record(by, writes, i) ==
    IF writes = <<>> THEN by
    ELSE Record(WithLabelValuesSet(by, Head(writes).vec, Head(writes).labels, i),
                Tail(writes), i)

\* lines 165-168
commonArgs(job, lastCompletedBuild) == <<job, Itoa(lastCompletedBuild.number)>>

\* lines 171-172: build duration and timestamp, milliseconds to seconds
SimpleMetrics(job, lastCompletedBuild) ==
    << Write("jenkinsCompletedBuildDurationSeconds", commonArgs(job, lastCompletedBuild),
             lastCompletedBuild.duration \div 1000),
       Write("jenkinsCompletedBuildTimestamp", commonArgs(job, lastCompletedBuild),
             lastCompletedBuild.timestamp \div 1000) >>

\* lines 176-178
TestCounts(job, lastCompletedBuild, resultset) ==
    << Write("jenkinsCompletedBuildTestCount",
             commonArgs(job, lastCompletedBuild) \o <<"fail">>, resultset.FailCount),
       Write("jenkinsCompletedBuildTestCount",
             commonArgs(job, lastCompletedBuild) \o <<"skip">>, resultset.SkipCount),
       Write("jenkinsCompletedBuildTestCount",
             commonArgs(job, lastCompletedBuild) \o <<"pass">>, resultset.PassCount) >>

\* lines 181-186
isRunningValue(running) == IF running THEN 1 ELSE 0

\* lines 189-194
isGood(good) == IF good THEN "1" ELSE "0"

\* lines 195-199
RunningBuild(job, lastBuild, isRunning) ==
    << Write("jenkinsRunningBuild",
             <<job, Itoa(lastBuild.number), isGood(lastBuild.good)>>, isRunning) >>

\* the switch with the cases of UNSTABLE and FAILED exchanged and no default
StageStatusValueExchanged(status) ==
    CASE status = "SUCCESS" -> 0
      [] status = "IN_PROGRESS" -> 1
      [] status = "UNSTABLE" -> 3
      [] status = "FAILED" -> 2
      [] OTHER -> 0

\* lines 212-224: the switch on stage.Status
StageStatusValue(status) ==
    CASE status = "SUCCESS" -> 0
      [] status = "IN_PROGRESS" -> 1
      [] status = "UNSTABLE" -> 2
      [] status = "FAILED" -> 3
      [] OTHER -> -1

\* lines 205-225: one Set per stage of the running build
RECURSIVE PipelineStatus(_, _, _)
PipelineStatus(job, lastBuild, stages) ==
    IF stages = <<>> THEN <<>>
    ELSE << Write("jenkinsRunningBuildPipelineStatus",
                  <<job, Itoa(lastBuild.number), Sprintf03s(Head(stages).ID), Head(stages).Name>>,
                  StageStatusValue(Head(stages).Status)) >>
         \o PipelineStatus(job, lastBuild, Tail(stages))

\* lines 203, 206: the sum of the stages' durations, each in whole seconds
RECURSIVE elapsedTime(_)
elapsedTime(stages) ==
    IF stages = <<>> THEN 0
    ELSE Head(stages).Duration \div 1000 + elapsedTime(Tail(stages))

\* lines 227-231
ElapsedTime(job, lastBuild, stages) ==
    << Write("jenkinsRunningBuildElapsedTime",
             <<job, Itoa(lastBuild.number), isGood(lastBuild.good)>>, elapsedTime(stages)) >>

\* the test turned around: 1 for "SUCCESS" only
BuildSuccessOnlyOnSuccess(result) == IF result = "SUCCESS" THEN 1 ELSE 0

\* lines 236-241
BuildSuccessValue(result) == IF result = "FAILURE" THEN 0 ELSE 1

\* lines 235-241
BuildSuccess(job, lastCompletedBuild) ==
    << Write("jenkinsCompletedBuildSuccess", commonArgs(job, lastCompletedBuild),
             BuildSuccessValue(lastCompletedBuild.result)) >>

\* lines 245-255: the cases of one suite
RECURSIVE CaseFailureAge(_, _, _, _)
CaseFailureAge(job, lastCompletedBuild, suite, cases) ==
    IF cases = <<>> THEN <<>>
    ELSE (IF ~Head(cases).Skipped /\ Head(cases).Status # "PASSED"
          THEN << Write("jenkinsCompletedBuildTestCaseFailureAge",
                        commonArgs(job, lastCompletedBuild)
                          \o <<suite, Head(cases).Name, Head(cases).Status,
                               Itoa(Head(cases).FailedSince)>>,
                        Head(cases).Age) >>
          ELSE <<>>)
         \o CaseFailureAge(job, lastCompletedBuild, suite, Tail(cases))

\* lines 244-256
RECURSIVE TestCaseFailureAge(_, _, _)
TestCaseFailureAge(job, lastCompletedBuild, suites) ==
    IF suites = <<>> THEN <<>>
    ELSE CaseFailureAge(job, lastCompletedBuild, Head(suites).Name, Head(suites).Cases)
         \o TestCaseFailureAge(job, lastCompletedBuild, Tail(suites))

\* lines 260-267
RECURSIVE PipelineDuration(_, _, _)
PipelineDuration(job, lastCompletedBuild, stages) ==
    IF stages = <<>> THEN <<>>
    ELSE << Write("jenkinsCompletedBuildPipelineDurationSeconds",
                  <<job, Itoa(lastCompletedBuild.number), Sprintf03s(Head(stages).ID),
                    Head(stages).Name>>,
                  Head(stages).Duration \div 1000) >>
         \o PipelineDuration(job, lastCompletedBuild, Tail(stages))

(***************************************************************************)
(* Startup.                                                                *)
(***************************************************************************)
\* the update intervals a configuration file can state: unset, 0, a negative number,
\* one minute, 9223372037 and 2^55 seconds
Unset == [set |-> FALSE, negative |-> FALSE, magnitude |-> U64(0)]
Setting(n) == [set |-> TRUE, negative |-> FALSE, magnitude |-> n]
Intervals ==
    { Unset, Setting(U64(0)), Setting(U64(60)),
      [set |-> TRUE, negative |-> TRUE, magnitude |-> U64(5)],
      Setting(<<5, 125, 193, 37, 2, 0, 0, 0>>),
      Setting(<<0, 0, 0, 0, 0, 0, 128, 0>>) }

JobLists == UNION {[1..n -> JobNames] : n \in 0..MaxJobs}

Files == [present : BOOLEAN, Jobs : JobLists, UpdateInterval : Intervals]

\* config.go, loadConfig: the results toml.DecodeFile can give.  An unset key leaves
\* the zero value; a negative integer is an error or is stored as its uint64 bits.
loadConfig(f) ==
    LET decoded(interval) == [err |-> FALSE,
                              config |-> [Jobs |-> f.Jobs, UpdateInterval |-> interval]]
    IN  IF ~f.UpdateInterval.set THEN {decoded(U64(0))}
        ELSE IF f.UpdateInterval.negative
             THEN {[err |-> TRUE, config |-> [Jobs |-> <<>>, UpdateInterval |-> U64(0)]],
                   decoded(Neg64(f.UpdateInterval.magnitude))}
             ELSE {decoded(f.UpdateInterval.magnitude)}

\* lines 100-102: uint64 <= 0
WithDefaultInterval(c) ==
    IF IsZero64(c.UpdateInterval)
    THEN [c EXCEPT !.UpdateInterval = U64(DefaultUpdateInterval)]
    ELSE c

ZeroConfig == [Jobs |-> <<>>, UpdateInterval |-> U64(0)]

InitAny ==
    /\ pc = "init"
    /\ file \in Files
    /\ config = ZeroConfig
    /\ metrics = NoSeries
    /\ logged = ""
    /\ idx = 0
    /\ local = NoLocal
    /\ slept = <<>>
    /\ failed = ""
    /\ setBy = NoSeries
    /\ reported = <<>>
    /\ start = NoSeries
    /\ scraped = <<>>

\* history and observation, which the poller does not write
Ghosts == <<start, scraped>>

\* jenkins-metrics.go:82-103, the init that loads the configuration
LoadConfig ==
    /\ pc = "init"
    /\ IF ~file.present
       THEN pc' = "fatal" /\ config' = config
       ELSE \E loaded \in loadConfig(file) :
               IF loaded.err
               THEN pc' = "fatal" /\ config' = config
               ELSE pc' = "connect" /\ config' = WithDefaultInterval(loaded.config)
    /\ UNCHANGED <<file, metrics, logged, idx, local, slept, failed, setBy, reported>>

(***************************************************************************)
(* updateMetrics, lines 106-270.                                           *)
(***************************************************************************)
jobname == config.Jobs[idx]

\* return from updateMetrics with the error logged
Return(call, message) ==
    /\ failed' = call
    /\ logged' = message
    /\ pc' = "sleep"
    /\ local' = NoLocal

\* a nil pointer is dereferenced: the goroutine panics and the process ends
Panic(call) ==
    /\ failed' = call
    /\ pc' = "crashed"
    /\ UNCHANGED <<logged, local>>

\* the Set calls of the iteration
Set(writes) ==
    /\ metrics' = Apply(metrics, writes)
    /\ setBy' = Record(setBy, writes, idx)

\* the reset moved before the call of Init
ConnectAfterReset ==
    /\ pc = "connect"
    /\ setBy' = NoSeries
    /\ reported' = <<>>
    /\ local' = NoLocal
    /\ metrics' = ResetAll(metrics)
    /\ \/ /\ failed' = "Init"
          /\ logged' = "Unable to connect to Jenkins"
          /\ pc' = "sleep"
          /\ UNCHANGED idx
       \/ /\ failed' = ""
          /\ logged' = ""
          /\ idx' = 1
          /\ pc' = IF Len(config.Jobs) = 0 THEN "sleep" ELSE "GetJob"
    /\ UNCHANGED <<file, config, slept>>

\* lines 107-135: a cycle begins; jenkinsCli.Init() and the reset of the nine vectors
\* (the client is created with or without credentials, which changes no state here)
Connect ==
    /\ pc = "connect"
    /\ setBy' = NoSeries
    /\ reported' = <<>>
    /\ local' = NoLocal
    /\ \/ /\ failed' = "Init"
          /\ logged' = "Unable to connect to Jenkins"
          /\ pc' = "sleep"
          /\ UNCHANGED <<metrics, idx>>
       \/ /\ failed' = ""
          /\ logged' = ""
          /\ metrics' = ResetAll(metrics)
          /\ idx' = 1
          /\ pc' = IF Len(config.Jobs) = 0 THEN "sleep" ELSE "GetJob"
    /\ UNCHANGED <<file, config, slept>>

\* lines 145-149
GetJob ==
    /\ pc = "GetJob"
    /\ \/ Return("GetJob", "Job Does Not Exist")
       \/ /\ local' = [local EXCEPT !.job = jobname]
          /\ pc' = "GetLastCompletedBuild"
          /\ UNCHANGED <<failed, logged>>
    /\ UNCHANGED <<file, config, metrics, idx, slept, setBy, reported>>

\* lines 152-156
GetLastCompletedBuild(server) ==
    /\ pc = "GetLastCompletedBuild"
    /\ \/ Return("GetLastCompletedBuild",
                 "Unable to collect metrics for job: " \o jobname
                    \o " - unable to get Last Completed Build")
       \/ /\ \E build \in server.CompletedBuilds :
                local' = [local EXCEPT !.lastCompletedBuild = build]
          /\ pc' = "GetLastBuild"
          /\ UNCHANGED <<failed, logged>>
    /\ UNCHANGED <<file, config, metrics, idx, slept, setBy, reported>>

\* the simple metrics set before the error of GetLastBuild is looked at
GetLastBuildSetFirst(server) ==
    /\ pc = "GetLastBuild"
    /\ Set(SimpleMetrics(local.job, local.lastCompletedBuild))
    /\ \/ Return("GetLastBuild",
                 "Unable to collect metrics for job: " \o jobname
                    \o " - unable to get Last Build")
       \/ /\ \E build \in server.LastBuilds :
                local' = [local EXCEPT !.lastBuild = build]
          /\ pc' = "GetResultSet"
          /\ UNCHANGED <<failed, logged>>
    /\ UNCHANGED <<file, config, idx, slept, reported>>

\* lines 158-172
GetLastBuild(server) ==
    /\ pc = "GetLastBuild"
    /\ \/ /\ Return("GetLastBuild",
                    "Unable to collect metrics for job: " \o jobname
                       \o " - unable to get Last Build")
          /\ UNCHANGED <<metrics, setBy>>
       \/ /\ \E build \in server.LastBuilds :
                local' = [local EXCEPT !.lastBuild = build]
          /\ Set(SimpleMetrics(local.job, local.lastCompletedBuild))
          /\ pc' = "GetResultSet"
          /\ UNCHANGED <<failed, logged>>
    /\ UNCHANGED <<file, config, idx, slept, reported>>

\* lines 175-178: the error is dropped and resultset dereferenced
GetResultSet ==
    /\ pc = "GetResultSet"
    /\ \/ /\ Panic("GetResultSet")
          /\ UNCHANGED <<metrics, setBy>>
       \/ /\ \E resultset \in ResultSets :
                /\ local' = [local EXCEPT !.resultset = resultset]
                /\ Set(TestCounts(local.job, local.lastCompletedBuild, resultset))
          /\ pc' = "IsRunning"
          /\ UNCHANGED <<failed, logged>>
    /\ UNCHANGED <<file, config, idx, slept, reported>>

\* lines 235-256, which follow the running build's block
BuildResult ==
    BuildSuccess(local.job, local.lastCompletedBuild)
      \o TestCaseFailureAge(local.job, local.lastCompletedBuild, local.resultset.Suites)

\* the block of the running build entered whatever isRunning is
IsRunningUnchecked ==
    /\ pc = "IsRunning"
    /\ \E running \in BOOLEAN :
          /\ local' = [local EXCEPT !.isRunning = isRunningValue(running)]
          /\ reported' = Append(reported, isRunningValue(running))
          /\ Set(RunningBuild(local.job, local.lastBuild, isRunningValue(running)))
          /\ pc' = "GetPipelineRunLive"
    /\ UNCHANGED <<file, config, idx, slept, failed, logged>>

\* lines 181-202, and 235-256 when no build is running; an error of job.IsRunning()
\* is dropped and reads as not running
IsRunning ==
    /\ pc = "IsRunning"
    /\ \E running \in BOOLEAN :
          /\ local' = [local EXCEPT !.isRunning = isRunningValue(running)]
          /\ reported' = Append(reported, isRunningValue(running))
          /\ IF isRunningValue(running) = 1
             THEN /\ Set(RunningBuild(local.job, local.lastBuild, isRunningValue(running)))
                  /\ pc' = "GetPipelineRunLive"
             ELSE /\ Set(RunningBuild(local.job, local.lastBuild, isRunningValue(running))
                           \o BuildResult)
                  /\ pc' = "GetPipelineRun"
    /\ UNCHANGED <<file, config, idx, slept, failed, logged>>

\* lines 204-256: the error is dropped and livePipe dereferenced
GetPipelineRunLive(server) ==
    /\ pc = "GetPipelineRunLive"
    /\ \/ /\ Panic("GetPipelineRunLive")
          /\ UNCHANGED <<metrics, setBy>>
       \/ /\ \E livePipe \in server.LiveRuns :
                /\ local' = [local EXCEPT !.livePipe = livePipe]
                /\ Set(PipelineStatus(local.job, local.lastBuild, livePipe)
                        \o ElapsedTime(local.job, local.lastBuild, livePipe)
                        \o BuildResult)
          /\ pc' = "GetPipelineRun"
          /\ UNCHANGED <<failed, logged>>
    /\ UNCHANGED <<file, config, idx, slept, reported>>

\* lines 259-269: the error is dropped and lastCompletedPipeline dereferenced; then
\* the next job of the list, or the end of updateMetrics
GetPipelineRun(server) ==
    /\ pc = "GetPipelineRun"
    /\ \/ /\ Panic("GetPipelineRun")
          /\ UNCHANGED <<metrics, setBy, idx>>
       \/ /\ \E lastCompletedPipeline \in server.CompletedRuns :
                Set(PipelineDuration(local.job, local.lastCompletedBuild,
                                     lastCompletedPipeline))
          /\ local' = NoLocal
          /\ idx' = idx + 1
          /\ pc' = IF idx = Len(config.Jobs) THEN "sleep" ELSE "GetJob"
          /\ UNCHANGED <<failed, logged>>
    /\ UNCHANGED <<file, config, slept, reported>>

\* line 278: time.Sleep(time.Duration(config.Jenkins.UpdateInterval) * time.Second),
\* which returns at once when the duration is zero or negative
Sleep ==
    /\ pc = "sleep"
    /\ slept' = <<Mul64(config.UpdateInterval, Second)>>
    /\ pc' = "connect"
    /\ UNCHANGED <<file, config, metrics, logged, idx, local, failed, setBy, reported>>

(***************************************************************************)
(* The handler of /metrics (line 283), which runs beside the poller with   *)
(* no lock between them and returns the series the vectors hold.           *)
(***************************************************************************)
Gather(m) == m

Scrape ==
    /\ pc \notin {"init", "fatal", "crashed"}
    /\ scraped' = <<Gather(metrics)>>
    /\ UNCHANGED <<pc, file, config, metrics, logged, idx, local, slept, failed, setBy,
                   reported, start>>

\* history: when a cycle begins, what is published then
Observe ==
    IF pc = "connect"
    THEN start' = metrics /\ scraped' = <<>>
    ELSE UNCHANGED <<start, scraped>>

(***************************************************************************)
(* The specifications.  Spec is the poller on every list of jobs, SpecBoot  *)
(* the poller on every configuration file of at most one job, SpecData the *)
(* poller of one job on a server that varies every field, SpecScrape the   *)
(* poller with the scrapes that run beside it.                             *)
(***************************************************************************)
Quiet(step) == step /\ UNCHANGED Ghosts

Observed(step) == step /\ Observe

\* updateMetrics is the steps from Connect to GetPipelineRun
Next ==
    \/ Quiet(LoadConfig)
    \/ Quiet(Connect)
    \/ Quiet(GetJob)
    \/ Quiet(GetLastCompletedBuild(Plain))
    \/ Quiet(GetLastBuild(Plain))
    \/ Quiet(GetResultSet)
    \/ Quiet(IsRunning)
    \/ Quiet(GetPipelineRunLive(Plain))
    \/ Quiet(GetPipelineRun(Plain))
    \/ Quiet(Sleep)

Init ==
    /\ InitAny
    /\ file.present
    /\ file.UpdateInterval = Unset

Spec == Init /\ [][Next]_vars

InitBoot ==
    /\ InitAny
    /\ Len(file.Jobs) <= 1

SpecBoot == InitBoot /\ [][Next]_vars

InitData ==
    /\ Init
    /\ Len(file.Jobs) = 1

NextData ==
    \/ Quiet(LoadConfig)
    \/ Quiet(Connect)
    \/ Quiet(GetJob)
    \/ Quiet(GetLastCompletedBuild(Rich))
    \/ Quiet(GetLastBuild(Rich))
    \/ Quiet(GetResultSet)
    \/ Quiet(IsRunning)
    \/ Quiet(GetPipelineRunLive(Rich))
    \/ Quiet(GetPipelineRun(Rich))
    \/ Quiet(Sleep)

SpecData == InitData /\ [][NextData]_vars

NextScrape ==
    \/ Observed(LoadConfig)
    \/ Observed(Connect)
    \/ Observed(GetJob)
    \/ Observed(GetLastCompletedBuild(Bare))
    \/ Observed(GetLastBuild(Bare))
    \/ Observed(GetResultSet)
    \/ Observed(IsRunning)
    \/ Observed(GetPipelineRunLive(Bare))
    \/ Observed(GetPipelineRun(Bare))
    \/ Observed(Sleep)
    \/ Scrape

SpecScrape == Init /\ [][NextScrape]_vars

(***************************************************************************)
(* The properties.                                                         *)
(***************************************************************************)
JobFetches == {"GetJob", "GetLastCompletedBuild", "GetLastBuild"}

\* the label values of the vector whose first label is the job name
LabelsOfJob(m, vec, name) == {l \in Labels(m, vec) : l[1] = name}

\* the label values of the vector that iteration i set
LabelsSetBy(vec, i) == {e[1] : e \in {x \in setBy[vec] : x[2] = i}}

\* every series present was set in the current cycle, for a job of the list
SetInThisCycle ==
    \A vec \in Vectors :
      /\ Labels(metrics, vec) \subseteq Labels(setBy, vec)
      /\ \A e \in setBy[vec] : e[2] \in 1..Len(config.Jobs) /\ e[1][1] = config.Jobs[e[2]]

C2_FailuresAreLoggedAndSurvived ==
    failed # "" => pc \in {"sleep", "connect"} /\ logged # ""

\* C3: a scrape never sees the metric set between the reset and the end of the
\* repopulation: what the last scrape of a cycle returned is the set published when
\* the cycle began or the set the cycle publishes.
C3_ScrapeSeesCompleteSet ==
    pc = "sleep" /\ scraped # <<>> => scraped[1] \in {start, metrics}

\* the series of the i-th stage of the running build of the iteration
StageSeries(i) ==
    {s \in metrics["jenkinsRunningBuildPipelineStatus"] :
       s[1] = <<local.job, Itoa(local.lastBuild.number),
                Sprintf03s(local.livePipe[i].ID), local.livePipe[i].Name>>}

RunningBlockDone == pc = "GetPipelineRun" /\ local.isRunning = 1

C5_PipelineStatusAsDocumented ==
    RunningBlockDone =>
      \A i \in 1..Len(local.livePipe) :
        \A s \in StageSeries(i) :
          /\ local.livePipe[i].Status = "FAILED" => s[2] = 0
          /\ local.livePipe[i].Status = "SUCCESS" => s[2] = 1

\* the series of jenkins_build_success of the iteration
SuccessSeries ==
    {s \in metrics["jenkinsCompletedBuildSuccess"] :
       s[1] = <<local.job, Itoa(local.lastCompletedBuild.number)>>}

\* C6: for every job processed, jenkins_build_success of the last completed build is 0
\* when its result is "FAILURE" and 1 for every other result.
C6_BuildSuccessEncoding ==
    pc = "GetPipelineRun" =>
      /\ Cardinality(SuccessSeries) = 1
      /\ \A s \in SuccessSeries :
           s[2] = IF local.lastCompletedBuild.result = "FAILURE" THEN 0 ELSE 1

\* a processed job whose last completed build is unstable, or has no result
C6_Witness ==
    /\ pc = "GetPipelineRun"
    /\ local.lastCompletedBuild.result \in {"UNSTABLE", ""}
    /\ SuccessSeries # {}

\* C7: after startup the poll interval is 1800 seconds when the configured one is unset
\* or not positive and the configured one otherwise, and the sleep between two cycles
\* is strictly positive.
C7_IntervalDefaultAndPositiveSleep ==
    /\ pc \notin {"init", "fatal"} =>
         config.UpdateInterval =
           IF \/ ~file.UpdateInterval.set
              \/ file.UpdateInterval.negative
              \/ IsZero64(file.UpdateInterval.magnitude)
           THEN U64(1800)
           ELSE file.UpdateInterval.magnitude
    /\ slept # <<>> => ~IsNegative64(slept[1]) /\ ~IsZero64(slept[1])

\* C8: when fetching the k-th job fails, the cycle sets no series for job k nor for a
\* later job, and the series it set for the jobs before k stay published until the
\* next cycle.
C8_FailedJobEndsCycle ==
    pc \in {"sleep", "connect"} /\ failed \in JobFetches =>
      /\ \A vec \in Vectors :
           /\ \A e \in setBy[vec] : e[2] < idx
           /\ Labels(setBy, vec) \subseteq Labels(metrics, vec)
      /\ \A i \in 1..(idx - 1) :
           /\ LabelsOfJob(metrics, "jenkinsCompletedBuildDurationSeconds", config.Jobs[i]) # {}
           /\ LabelsOfJob(metrics, "jenkinsCompletedBuildSuccess", config.Jobs[i]) # {}

\* the second job of the list could not be fetched, after the first was processed
C8_Witness ==
    /\ pc = "connect"
    /\ failed = "GetLastBuild"
    /\ idx = 2
    /\ metrics["jenkinsCompletedBuildSuccess"] # {}

\* C9: a cycle whose connection to the server fails changes no gauge vector, and a
\* scrape after it returns the series the cycle before left.
C9_ConnectFailureChangesNothing ==
    [][pc = "connect" /\ failed' = "Init"
         => metrics' = metrics /\ Gather(metrics') = Gather(metrics)]_vars

\* a cycle could not connect and the series of the cycle before are published
C9_Witness ==
    /\ pc = "sleep"
    /\ failed = "Init"
    /\ metrics["jenkinsRunningBuild"] # {}

\* the iterations of the current cycle that reported the job running
ReportedRunning(name) ==
    \E i \in 1..Len(reported) : config.Jobs[i] = name /\ reported[i] = 1

\* the iteration has set one series of jenkins_running_build, labelled with the number
\* of the last build and valued isRunning, and a series of the elapsed time if and
\* only if the job is running
RunningBuildOfIteration ==
    pc = "GetPipelineRun" =>
      /\ LabelsSetBy("jenkinsRunningBuild", idx)
           = {<<local.job, Itoa(local.lastBuild.number), isGood(local.lastBuild.good)>>}
      /\ \A s \in metrics["jenkinsRunningBuild"] :
           s[1] \in LabelsSetBy("jenkinsRunningBuild", idx) => s[2] = local.isRunning
      /\ local.isRunning \in {0, 1}
      /\ LabelsSetBy("jenkinsRunningBuildElapsedTime", idx) # {} <=> local.isRunning = 1

====
